---- MODULE Spec2Model ----
(***************************************************************************)
(* A model of the quiz-chain solver (src/solver.py): the answer            *)
(* normalizer (_normalize_answer_for_submission and its helpers) as        *)
(* operators over Python values, and solve_quiz as a state machine whose   *)
(* steps are the suspension points of one loop iteration.                  *)
(*                                                                         *)
(* Python values are records [t |-> type, v |-> payload]:                  *)
(*   none  v = 0            bool  v \in BOOLEAN       int  v \in Int      *)
(*   float v = <<m, e>>, the decimal m * 10^(-e), trailing zeros removed   *)
(*   str   v = sequence of one-character strings                           *)
(*   list  v = sequence of values                                          *)
(*   dict  v = sequence of <<key, value>> pairs, keys distinct, in         *)
(*             insertion order                                             *)
(***************************************************************************)
EXTENDS Integers, Sequences, FiniteSets, TLC

\* ------------------------------------------------------------------------
\* Python values
\* ------------------------------------------------------------------------

PyNone == [t |-> "none", v |-> 0]

PyBool(b) == [t |-> "bool", v |-> b]

PyInt(n) == [t |-> "int", v |-> n]

PyStr(s) == [t |-> "str", v |-> s]

PyList(xs) == [t |-> "list", v |-> xs]

PyDict(kvs) == [t |-> "dict", v |-> kvs]

RECURSIVE FloatNorm(_, _)
\* float(): the decimal m * 10^(-e) with trailing zeros dropped
FloatNorm(m, e) ==
    IF e > 0 /\ m % 10 = 0 THEN FloatNorm(m \div 10, e - 1) ELSE <<m, e>>

PyFloat(m, e) == [t |-> "float", v |-> FloatNorm(m, e)]

\* isinstance(v, (str, int, float, bool))
IsScalar(x) == x.t \in {"str", "int", "float", "bool"}

\* ------------------------------------------------------------------------
\* Characters and strings
\* ------------------------------------------------------------------------

DigitChars == <<"0", "1", "2", "3", "4", "5", "6", "7", "8", "9">>

Digits == {DigitChars[i] : i \in 1..10}

DigitVal(c) == (CHOOSE i \in 1..10 : DigitChars[i] = c) - 1

\* str.strip() and the JSON scanner skip blanks
Whitespace == {" "}

UpperChars == <<"A", "B", "C", "D", "E", "F", "G", "H", "I", "J", "K", "L", "M",
                "N", "O", "P", "Q", "R", "S", "T", "U", "V", "W", "X", "Y", "Z">>

LowerChars == <<"a", "b", "c", "d", "e", "f", "g", "h", "i", "j", "k", "l", "m",
                "n", "o", "p", "q", "r", "s", "t", "u", "v", "w", "x", "y", "z">>

LowerChar(c) ==
    IF \E i \in 1..26 : UpperChars[i] = c
    THEN LowerChars[CHOOSE i \in 1..26 : UpperChars[i] = c]
    ELSE c

\* str.lower()
Lower(s) == [i \in 1..Len(s) |-> LowerChar(s[i])]

RECURSIVE LStrip(_)
LStrip(s) == IF s # <<>> /\ Head(s) \in Whitespace THEN LStrip(Tail(s)) ELSE s

RECURSIVE RStrip(_)
RStrip(s) ==
    IF s # <<>> /\ s[Len(s)] \in Whitespace
    THEN RStrip(SubSeq(s, 1, Len(s) - 1))
    ELSE s

\* str.strip()
Strip(s) == RStrip(LStrip(s))

\* str.startswith(p)
StartsWith(s, p) == Len(s) >= Len(p) /\ SubSeq(s, 1, Len(p)) = p

\* p in s
Contains(s, p) ==
    \E i \in 1..(Len(s) - Len(p) + 1) : SubSeq(s, i, i + Len(p) - 1) = p

\* the digit run s[i..] : index of the first non-digit at or after i
RECURSIVE DigitsEnd(_, _)
DigitsEnd(s, i) ==
    IF i <= Len(s) /\ s[i] \in Digits THEN DigitsEnd(s, i + 1) ELSE i

\* value of the digit string s[i..j]
RECURSIVE DigitsValue(_, _, _)
DigitsValue(s, i, j) ==
    IF j < i THEN 0 ELSE DigitsValue(s, i, j - 1) * 10 + DigitVal(s[j])

RECURSIVE NatStr(_)
NatStr(n) ==
    IF n < 10 THEN <<DigitChars[n + 1]>>
    ELSE NatStr(n \div 10) \o <<DigitChars[(n % 10) + 1]>>

\* str(int)
IntStr(n) == IF n < 0 THEN <<"-">> \o NatStr(-n) ELSE NatStr(n)

RECURSIVE Pow10(_)
Pow10(e) == IF e = 0 THEN 1 ELSE 10 * Pow10(e - 1)

RECURSIVE ZeroPad(_, _)
ZeroPad(s, w) == IF Len(s) >= w THEN s ELSE ZeroPad(<<"0">> \o s, w)

\* repr(float) for the decimals the model holds
FloatStr(f) ==
    LET m == f[1]
        e == f[2]
        a == IF m < 0 THEN -m ELSE m
        sign == IF m < 0 THEN <<"-">> ELSE <<>>
    IN  IF e = 0 THEN sign \o NatStr(a) \o <<".", "0">>
        ELSE sign \o NatStr(a \div Pow10(e)) \o <<".">>
                  \o ZeroPad(NatStr(a % Pow10(e)), e)

\* ------------------------------------------------------------------------
\* dict helpers
\* ------------------------------------------------------------------------

\* "k in obj"
HasKey(kvs, k) == \E i \in 1..Len(kvs) : kvs[i][1] = k

\* obj[k] / obj.get(k) for a present key
GetKey(kvs, k) == kvs[CHOOSE i \in 1..Len(kvs) : kvs[i][1] = k][2]

\* obj[k] = v : a present key keeps its position, a new key goes last
DictPut(kvs, k, v) ==
    IF HasKey(kvs, k)
    THEN [i \in 1..Len(kvs) |-> IF kvs[i][1] = k THEN <<k, v>> ELSE kvs[i]]
    ELSE Append(kvs, <<k, v>>)

\* ------------------------------------------------------------------------
\* json.loads
\* ------------------------------------------------------------------------

ParseFail == [ok |-> FALSE, val |-> PyNone, pos |-> 0]

ParseOk(x, p) == [ok |-> TRUE, val |-> x, pos |-> p]

RECURSIVE SkipWs(_, _)
SkipWs(s, i) ==
    IF i <= Len(s) /\ s[i] \in Whitespace THEN SkipWs(s, i + 1) ELSE i

\* the body of a JSON string, from the character after the opening quote;
\* of the escapes only \" \\ \/ are modelled
RECURSIVE ScanString(_, _, _)
ScanString(s, i, acc) ==
    IF i > Len(s) THEN ParseFail
    ELSE IF s[i] = "\"" THEN ParseOk(PyStr(acc), i + 1)
    ELSE IF s[i] = "\\"
         THEN IF i + 1 <= Len(s) /\ s[i + 1] \in {"\"", "\\", "/"}
              THEN ScanString(s, i + 2, Append(acc, s[i + 1]))
              ELSE ParseFail
    ELSE ScanString(s, i + 1, Append(acc, s[i]))

\* the literal w at position i
ScanLiteral(s, i, w, x) ==
    IF i + Len(w) - 1 <= Len(s) /\ SubSeq(s, i, i + Len(w) - 1) = w
    THEN ParseOk(x, i + Len(w))
    ELSE ParseFail

\* -?(0|[1-9]\d*)(\.\d+)? ; exponents are not modelled
ScanNumber(s, i) ==
    LET neg == s[i] = "-"
        a == IF neg THEN i + 1 ELSE i
        b == IF a <= Len(s) /\ s[a] = "0" THEN a + 1 ELSE DigitsEnd(s, a)
        hasFrac == b <= Len(s) /\ s[b] = "." /\ DigitsEnd(s, b + 1) > b + 1
        c == DigitsEnd(s, b + 1)
        ip == DigitsValue(s, a, b - 1)
        fl == c - (b + 1)
        mag == ip * Pow10(fl) + DigitsValue(s, b + 1, c - 1)
    IN  IF b = a THEN ParseFail
        ELSE IF hasFrac
             THEN ParseOk(PyFloat(IF neg THEN -mag ELSE mag, fl), c)
             ELSE ParseOk(PyInt(IF neg THEN -ip ELSE ip), b)

RECURSIVE ScanValue(_, _)
RECURSIVE ScanArrayItems(_, _, _)
RECURSIVE ScanObjectItems(_, _, _)

\* JSONArray after "[" and blanks: value (, value)* ]
ScanArrayItems(s, i, acc) ==
    LET r == ScanValue(s, i)
        j == SkipWs(s, r.pos)
    IN  IF ~r.ok \/ j > Len(s) THEN ParseFail
        ELSE IF s[j] = "]" THEN ParseOk(PyList(Append(acc, r.val)), j + 1)
        ELSE IF s[j] = ","
             THEN ScanArrayItems(s, SkipWs(s, j + 1), Append(acc, r.val))
        ELSE ParseFail

\* JSONObject after "{" and blanks: "key" : value (, "key" : value)* }
ScanObjectItems(s, i, acc) ==
    IF i > Len(s) \/ s[i] # "\"" THEN ParseFail
    ELSE
    LET k == ScanString(s, i + 1, <<>>)
        c == SkipWs(s, k.pos)
    IN  IF ~k.ok \/ c > Len(s) \/ s[c] # ":" THEN ParseFail
        ELSE
        LET r == ScanValue(s, SkipWs(s, c + 1))
            j == SkipWs(s, r.pos)
            d == DictPut(acc, k.val.v, r.val)
        IN  IF ~r.ok \/ j > Len(s) THEN ParseFail
            ELSE IF s[j] = "}" THEN ParseOk(PyDict(d), j + 1)
            ELSE IF s[j] = "," THEN ScanObjectItems(s, SkipWs(s, j + 1), d)
            ELSE ParseFail

\* scan_once
ScanValue(s, i) ==
    IF i > Len(s) THEN ParseFail
    ELSE IF s[i] = "\"" THEN ScanString(s, i + 1, <<>>)
    ELSE IF s[i] = "{"
         THEN LET j == SkipWs(s, i + 1)
              IN  IF j <= Len(s) /\ s[j] = "}" THEN ParseOk(PyDict(<<>>), j + 1)
                  ELSE ScanObjectItems(s, j, <<>>)
    ELSE IF s[i] = "["
         THEN LET j == SkipWs(s, i + 1)
              IN  IF j <= Len(s) /\ s[j] = "]" THEN ParseOk(PyList(<<>>), j + 1)
                  ELSE ScanArrayItems(s, j, <<>>)
    ELSE IF s[i] = "n" THEN ScanLiteral(s, i, <<"n", "u", "l", "l">>, PyNone)
    ELSE IF s[i] = "t" THEN ScanLiteral(s, i, <<"t", "r", "u", "e">>, PyBool(TRUE))
    ELSE IF s[i] = "f"
         THEN ScanLiteral(s, i, <<"f", "a", "l", "s", "e">>, PyBool(FALSE))
    ELSE IF s[i] = "-" \/ s[i] \in Digits THEN ScanNumber(s, i)
    ELSE ParseFail

\* json.loads(s): [ok |-> parsed without raising, val |-> the value]
JsonLoads(s) ==
    LET r == ScanValue(s, SkipWs(s, 1))
    IN  IF r.ok /\ SkipWs(s, r.pos) = Len(s) + 1 THEN r ELSE ParseFail

\* ------------------------------------------------------------------------
\* str() and json.dumps
\* ------------------------------------------------------------------------

\* s with a backslash before every character of esc
RECURSIVE Escape(_, _)
Escape(s, esc) ==
    IF s = <<>> THEN <<>>
    ELSE (IF Head(s) \in esc THEN <<"\\", Head(s)>> ELSE <<Head(s)>>)
         \o Escape(Tail(s), esc)

\* repr(str): single quotes unless the text has ' and no "
ReprStr(s) ==
    IF (\E i \in 1..Len(s) : s[i] = "'") /\ ~(\E i \in 1..Len(s) : s[i] = "\"")
    THEN <<"\"">> \o Escape(s, {"\\"}) \o <<"\"">>
    ELSE <<"'">> \o Escape(s, {"\\", "'"}) \o <<"'">>

RECURSIVE PyRepr(_)
RECURSIVE ReprItems(_, _)
RECURSIVE ReprPairs(_, _)

\* ", ".join(repr(x) for x in xs[i:])
ReprItems(xs, i) ==
    IF i > Len(xs) THEN <<>>
    ELSE PyRepr(xs[i])
         \o (IF i < Len(xs) THEN <<",", " ">> ELSE <<>>)
         \o ReprItems(xs, i + 1)

\* ", ".join(repr(k) + ": " + repr(v) for k, v in kvs[i:])
ReprPairs(kvs, i) ==
    IF i > Len(kvs) THEN <<>>
    ELSE ReprStr(kvs[i][1]) \o <<":", " ">> \o PyRepr(kvs[i][2])
         \o (IF i < Len(kvs) THEN <<",", " ">> ELSE <<>>)
         \o ReprPairs(kvs, i + 1)

\* repr(x)
PyRepr(x) ==
    CASE x.t = "none" -> <<"N", "o", "n", "e">>
      [] x.t = "bool" -> IF x.v THEN <<"T", "r", "u", "e">>
                                ELSE <<"F", "a", "l", "s", "e">>
      [] x.t = "int" -> IntStr(x.v)
      [] x.t = "float" -> FloatStr(x.v)
      [] x.t = "str" -> ReprStr(x.v)
      [] x.t = "list" -> <<"[">> \o ReprItems(x.v, 1) \o <<"]">>
      [] x.t = "dict" -> <<"{">> \o ReprPairs(x.v, 1) \o <<"}">>

\* str(x)
PyStrOf(x) == IF x.t = "str" THEN x.v ELSE PyRepr(x)

\* the JSON text of a string
DumpsStr(s) == <<"\"">> \o Escape(s, {"\\", "\""}) \o <<"\"">>

RECURSIVE JsonDumps(_)
RECURSIVE DumpsItems(_, _)
RECURSIVE DumpsPairs(_, _)

DumpsItems(xs, i) ==
    IF i > Len(xs) THEN <<>>
    ELSE JsonDumps(xs[i])
         \o (IF i < Len(xs) THEN <<",", " ">> ELSE <<>>)
         \o DumpsItems(xs, i + 1)

DumpsPairs(kvs, i) ==
    IF i > Len(kvs) THEN <<>>
    ELSE DumpsStr(kvs[i][1]) \o <<":", " ">> \o JsonDumps(kvs[i][2])
         \o (IF i < Len(kvs) THEN <<",", " ">> ELSE <<>>)
         \o DumpsPairs(kvs, i + 1)

\* json.dumps(x), default separators
JsonDumps(x) ==
    CASE x.t = "none" -> <<"n", "u", "l", "l">>
      [] x.t = "bool" -> IF x.v THEN <<"t", "r", "u", "e">>
                                ELSE <<"f", "a", "l", "s", "e">>
      [] x.t = "int" -> IntStr(x.v)
      [] x.t = "float" -> FloatStr(x.v)
      [] x.t = "str" -> DumpsStr(x.v)
      [] x.t = "list" -> <<"[">> \o DumpsItems(x.v, 1) \o <<"]">>
      [] x.t = "dict" -> <<"{">> \o DumpsPairs(x.v, 1) \o <<"}">>

\* ------------------------------------------------------------------------
\* Normalization helpers (src/solver.py)
\* ------------------------------------------------------------------------

\* _attempt_json_parse: the parsed value, None when json.loads raises
attempt_json_parse(value) ==
    LET r == JsonLoads(value) IN IF r.ok THEN r.val ELSE PyNone

\* _attempt_number: int for -?\d+, float for -?\d+\.\d+, else None
attempt_number(value) ==
    LET s == Strip(value)
        a == IF s # <<>> /\ s[1] = "-" THEN 2 ELSE 1
        b == DigitsEnd(s, a)
        c == DigitsEnd(s, b + 1)
        neg == a = 2
        ip == DigitsValue(s, a, b - 1)
        fl == c - (b + 1)
        mag == ip * Pow10(fl) + DigitsValue(s, b + 1, c - 1)
    IN  IF b > a /\ b = Len(s) + 1 THEN PyInt(IF neg THEN -ip ELSE ip)
        ELSE IF b > a /\ b <= Len(s) /\ s[b] = "." /\ c > b + 1 /\ c = Len(s) + 1
             THEN PyFloat(IF neg THEN -mag ELSE mag, fl)
        ELSE PyNone

\* _attempt_boolean
attempt_boolean(value) ==
    LET v == Lower(Strip(value))
    IN  IF v \in {<<"t", "r", "u", "e">>, <<"y", "e", "s">>, <<"y">>}
        THEN PyBool(TRUE)
        ELSE IF v \in {<<"f", "a", "l", "s", "e">>, <<"n", "o">>, <<"n">>}
        THEN PyBool(FALSE)
        ELSE PyNone

AnswerKey == <<"a", "n", "s", "w", "e", "r">>

\* _flatten_answer_object
flatten_answer_object(obj) ==
    IF HasKey(obj, AnswerKey)
    THEN LET v == GetKey(obj, AnswerKey)
         IN  IF IsScalar(v) THEN v ELSE PyStr(JsonDumps(v))
    ELSE PyDict([i \in 1..Len(obj) |->
                   IF IsScalar(obj[i][2]) THEN obj[i]
                   ELSE <<obj[i][1], PyStr(PyStrOf(obj[i][2]))>>])

DataPrefix == <<"d", "a", "t", "a", ":">>

Base64Mark == <<";", "b", "a", "s", "e", "6", "4", ",">>

\* the normalizer with float missing from the isinstance test of line 90
normalize_answer_no_float(answer) ==
    IF answer.t \in {"int", "bool"} THEN answer
    ELSE IF answer.t = "dict" THEN flatten_answer_object(answer.v)
    ELSE IF answer.t = "str"
    THEN LET s == Strip(answer.v)
             b == attempt_boolean(s)
             n == attempt_number(s)
             j == attempt_json_parse(s)
         IN  IF b # PyNone THEN b
             ELSE IF n # PyNone THEN n
             ELSE IF j # PyNone
                  THEN IF j.t = "dict" THEN flatten_answer_object(j.v) ELSE j
             ELSE PyStr(s)
    ELSE PyStr(PyStrOf(answer))

\* _normalize_answer_for_submission
normalize_answer_for_submission(answer) ==
    IF answer.t \in {"int", "float", "bool"} THEN answer
    ELSE IF answer.t = "dict" THEN flatten_answer_object(answer.v)
    ELSE IF answer.t = "str"
    THEN LET s == Strip(answer.v)
             b == attempt_boolean(s)
             n == attempt_number(s)
             j == attempt_json_parse(s)
         IN  IF b # PyNone THEN b
             ELSE IF n # PyNone THEN n
             ELSE IF j # PyNone
                  THEN IF j.t = "dict" THEN flatten_answer_object(j.v) ELSE j
             ELSE IF StartsWith(s, DataPrefix) /\ Contains(s, Base64Mark) THEN PyStr(s)
             ELSE PyStr(s)
    ELSE PyStr(PyStrOf(answer))

\* ------------------------------------------------------------------------
\* Scraping helpers (src/solver.py)
\* ------------------------------------------------------------------------

Letters == {UpperChars[i] : i \in 1..26} \cup {LowerChars[i] : i \in 1..26}

\* \w
WordChar(c) == c \in Letters \cup Digits \cup {"_"}

\* [A-Za-z0-9_\-]
TokenChar(c) == c \in Letters \cup Digits \cup {"_", "-"}

\* [A-Za-z0-9_\-{}]
SecretChar(c) == c \in Letters \cup Digits \cup {"_", "-", "{", "}"}

\* \b at the gap before index i
WordBoundary(text, i) ==
    LET before == i - 1 >= 1 /\ i - 1 <= Len(text) /\ WordChar(text[i - 1])
        after == i >= 1 /\ i <= Len(text) /\ WordChar(text[i])
    IN  before # after

\* tds\{[^}]+\} (IGNORECASE) starting at i : the index of the closing brace, 0 if none
TdsEnd(text, i) ==
    IF i + 3 <= Len(text)
       /\ Lower(SubSeq(text, i, i + 3)) = <<"t", "d", "s", "{">>
       /\ \E j \in (i + 4)..Len(text) : text[j] = "}"
    THEN LET j == CHOOSE j \in (i + 4)..Len(text) :
                      text[j] = "}" /\ \A k \in (i + 4)..(j - 1) : text[k] # "}"
         IN  IF j >= i + 5 THEN j ELSE 0
    ELSE 0

\* \b([A-Za-z0-9_\-]{6,})\b starting at i : the ends the pattern can stop at
TokenEnds(text, i) ==
    {k \in (i + 5)..Len(text) :
        /\ WordBoundary(text, i)
        /\ \A m \in i..k : TokenChar(text[m])
        /\ WordBoundary(text, k + 1)}

\* secret[:\s]*([A-Za-z0-9_\-{}]{4,}) (IGNORECASE) starting at i : <<first, last>>
\* of the group, <<0, 0>> if none
RECURSIVE RunEnd(_, _, _)
RunEnd(text, i, cls) ==
    IF i <= Len(text) /\ text[i] \in cls THEN RunEnd(text, i + 1, cls) ELSE i

SecretGroup(text, i) ==
    IF i + 5 <= Len(text)
       /\ Lower(SubSeq(text, i, i + 5)) = <<"s", "e", "c", "r", "e", "t">>
    THEN LET a == RunEnd(text, i + 6, Whitespace \cup {":"})
             b == RunEnd(text, a, {c \in {text[m] : m \in 1..Len(text)} : SecretChar(c)})
         IN  IF b - a >= 4 THEN <<a, b - 1>> ELSE <<0, 0>>
    ELSE <<0, 0>>

Min(S) == CHOOSE x \in S : \A y \in S : x <= y

Max(S) == CHOOSE x \in S : \A y \in S : x >= y

\* _extract_secret_from_text: the first pattern that matches, leftmost match
extract_secret_from_text(text) ==
    LET idx == 1..Len(text)
        tds == {i \in idx : TdsEnd(text, i) # 0}
        tok == {i \in idx : TokenEnds(text, i) # {}}
        sec == {i \in idx : SecretGroup(text, i) # <<0, 0>>}
    IN  IF text = <<>> THEN PyNone
        ELSE IF tds # {}
             THEN PyStr(SubSeq(text, Min(tds), TdsEnd(text, Min(tds))))
        ELSE IF tok # {}
             THEN PyStr(SubSeq(text, Min(tok), Max(TokenEnds(text, Min(tok)))))
        ELSE IF sec # {}
             THEN LET g == SecretGroup(text, Min(sec)) IN PyStr(SubSeq(text, g[1], g[2]))
        ELSE PyNone

\* str.endswith(p)
EndsWith(s, p) == Len(s) >= Len(p) /\ SubSeq(s, Len(s) - Len(p) + 1, Len(s)) = p

SheetSuffixes == {<<".", "c", "s", "v">>, <<".", "x", "l", "s">>,
                  <<".", "x", "l", "s", "x">>}

HttpPrefix == <<"h", "t", "t", "p">>

\* the URLs httpx sends a request to: absolute http:// or https:// strings
Fetchable(u) ==
    /\ u.t = "str"
    /\ \/ StartsWith(u.v, HttpPrefix \o <<":", "/", "/">>) /\ Len(u.v) > 7
       \/ StartsWith(u.v, HttpPrefix \o <<"s", ":", "/", "/">>) /\ Len(u.v) > 8

\* urljoin(base, href) for an http base and a href without scheme
UrlJoin(base, href) ==
    LET auth == IF StartsWith(base, HttpPrefix \o <<"s">>) THEN 8 ELSE 7
        slashes == {i \in (auth + 1)..Len(base) : base[i] = "/"}
    IN  IF href # <<>> /\ href[1] = "/"
        THEN (IF slashes = {} THEN base ELSE SubSeq(base, 1, Min(slashes) - 1)) \o href
        ELSE IF slashes = {} THEN base \o <<"/">> \o href
        ELSE SubSeq(base, 1, Max(slashes)) \o href

\* the anchor scan of solve_quiz: the first href ending in a spreadsheet
\* suffix, made absolute; None when there is none
RECURSIVE find_file_link(_, _, _)
find_file_link(hrefs, i, page_url) ==
    IF i > Len(hrefs) THEN PyNone
    ELSE LET href == Strip(hrefs[i])
         IN  IF \E suf \in SheetSuffixes : EndsWith(Lower(href), suf)
             THEN PyStr(IF StartsWith(href, HttpPrefix) THEN href
                        ELSE UrlJoin(page_url, href))
             ELSE find_file_link(hrefs, i + 1, page_url)

Raised(msg) == [raised |-> TRUE, err |-> msg, val |-> PyNone]

Returned(x) == [raised |-> FALSE, err |-> "", val |-> x]

RECURSIVE SumCells(_, _)
SumCells(cells, i) == IF i > Len(cells) THEN 0 ELSE cells[i].v + SumCells(cells, i + 1)

SumWord == <<"s", "u", "m">>

\* _download_and_process_file.  resp is the file GET's outcome: ok = the GET
\* returned 2xx, parses = pandas read the body, table = the columns read,
\* each [name, cells]
download_and_process_file(file_url, resp, context_text) ==
    LET df == resp.table
        num_cols == {c \in 1..Len(df) :
                        \A r \in 1..Len(df[c].cells) : df[c].cells[r].t \in {"int", "float"}}
        rows == IF df = <<>> THEN 0 ELSE Len(df[1].cells)
    IN  IF ~resp.ok THEN Raised("HTTPStatusError")
        ELSE IF ~\E suf \in SheetSuffixes : EndsWith(Lower(file_url), suf)
             THEN Raised("Unsupported file type for heuristic")
        ELSE IF ~resp.parses THEN Raised("ParserError")
        ELSE IF Contains(Lower(context_text), SumWord) /\ num_cols # {}
             THEN Returned(PyInt(SumCells(df[Min(num_cols)].cells, 1)))
        ELSE Returned(PyList([r \in 1..rows |->
                 PyDict([c \in 1..Len(df) |-> <<df[c].name, df[c].cells[r]>>])]))

\* ------------------------------------------------------------------------
\* LLM solver (src/solver.py)
\* ------------------------------------------------------------------------

\* _call_aipipe.  resp is the inference POST's outcome: ok = configured,
\* reachable and 2xx; choices = the message contents of data["choices"]
call_aipipe(resp) ==
    IF ~resp.ok THEN Raised("AipipeError")
    ELSE IF resp.choices = <<>> THEN Returned(PyStr(<<>>))
    ELSE Returned(PyStr(resp.choices[1]))

\* re.search(r"(\{[\s\S]*\})", s): first "{" to last "}", <<>> when no match
BraceSpan(s) ==
    LET opens == {i \in 1..Len(s) : s[i] = "{"}
        closes == {i \in 1..Len(s) : s[i] = "}"}
    IN  IF opens # {} /\ closes # {} /\ Max(closes) > Min(opens)
        THEN SubSeq(s, Min(opens), Max(closes))
        ELSE <<>>

\* _solve_page_with_llm
solve_page_with_llm(resp) ==
    LET r == call_aipipe(resp)
        assistant_output == Strip(r.val.v)
        direct == JsonLoads(assistant_output)
        span == BraceSpan(assistant_output)
        inner == JsonLoads(span)
    IN  IF r.raised THEN r
        ELSE IF direct.ok THEN Returned(direct.val)
        ELSE IF span # <<>> /\ inner.ok THEN Returned(inner.val)
        ELSE Returned(PyStr(assistant_output))

\* ------------------------------------------------------------------------
\* Submission (src/solver.py)
\* ------------------------------------------------------------------------

RawKey == <<"r", "a", "w">>

UrlKey == <<"u", "r", "l">>

\* resp.json() failing leaves the raw text itself as the parsed response
submit_parsed_unwrapped(text) ==
    LET r == JsonLoads(text)
    IN  IF r.ok THEN r.val ELSE PyStr(text)

\* _submit_to_analysis after the POST returned: resp.json(), or {"raw": text}
submit_parsed(text) ==
    LET r == JsonLoads(text)
    IN  IF r.ok THEN r.val ELSE PyDict(<< <<RawKey, PyStr(text)>> >>)

\* bool(x)
Truthy(x) ==
    CASE x.t = "none" -> FALSE
      [] x.t = "bool" -> x.v
      [] x.t = "int" -> x.v # 0
      [] x.t = "float" -> x.v[1] # 0
      [] x.t \in {"str", "list", "dict"} -> x.v # <<>>

\* step 5 without the nested-JSON fallback
next_url_of_plain(parsed) ==
    IF parsed.t # "dict" THEN PyNone
    ELSE IF HasKey(parsed.v, UrlKey) THEN GetKey(parsed.v, UrlKey) ELSE PyNone

\* solve_quiz step 5: the next URL named by the parsed grading response
next_url_of(parsed) ==
    IF parsed.t # "dict" THEN PyNone
    ELSE LET u == IF HasKey(parsed.v, UrlKey) THEN GetKey(parsed.v, UrlKey) ELSE PyNone
             nested == JsonLoads(u.v)
         IN  IF u.t = "str" /\ StartsWith(u.v, <<"{">>)
             THEN IF nested.ok
                  THEN IF HasKey(nested.val.v, UrlKey)
                       THEN GetKey(nested.val.v, UrlKey) ELSE PyNone
                  ELSE u
             ELSE u

\* ------------------------------------------------------------------------
\* Bounds and the responses the environment may give
\* ------------------------------------------------------------------------

\* largest max_steps argument explored
MaxChain == 2

\* default of required_min_steps
DefaultRequiredMin == 3

HttpA == <<"h", "t", "t", "p", ":", "/", "/", "a">>

HttpB == <<"h", "t", "t", "p", ":", "/", "/", "b">>

StartUrls == {<<>>, HttpA}

MaxStepsArgs == (-1)..MaxChain

RequiredMinArgs == {0, MaxChain, DefaultRequiredMin}

\* page texts: one with a tds{..} token, one that asks for a sum and holds no token
PageTexts == {<<"t", "d", "s", "{", "a", "b", "}">>, <<"s", "u", "m">>}

\* href lists of a page: no anchor, or a page link followed by a sheet link
AnchorLists == {<<>>, << <<"x">>, <<" ", "d", ".", "C", "S", "V">> >>}

NumTable == << [name |-> <<"n">>, cells |-> <<PyInt(1), PyInt(2)>>] >>

\* outcomes of the file GET
FileResponses ==
    {[ok |-> FALSE, parses |-> FALSE, table |-> <<>>],
     [ok |-> TRUE, parses |-> FALSE, table |-> <<>>],
     [ok |-> TRUE, parses |-> TRUE, table |-> NumTable]}

AnswerTrue == PyDict(<< <<AnswerKey, PyStr(<<"t", "r", "u", "e">>)>> >>)

\* outcomes of the inference POST: failure, no choices, a JSON answer object
LlmResponses ==
    {[ok |-> FALSE, choices |-> <<>>],
     [ok |-> TRUE, choices |-> <<>>],
     [ok |-> TRUE, choices |-> <<JsonDumps(AnswerTrue)>>]}

UrlBody(u) == JsonDumps(PyDict(<< <<UrlKey, u>> >>))

\* bodies of the grading response
SubmitBodies ==
    {JsonDumps(PyDict(<<>>)),
     <<"o", "k">>,
     UrlBody(PyStr(HttpB)),
     UrlBody(PyStr(UrlBody(PyStr(HttpB)))),
     UrlBody(PyStr(JsonDumps(PyDict(<<>>)))),
     UrlBody(PyStr(<<"{", "x">>))}

\* outcomes of the grading POST: ok = a response arrived
SubmitResponses ==
    {[ok |-> FALSE, status |-> 0, text |-> <<>>]}
    \cup {[ok |-> TRUE, status |-> 200, text |-> b] : b \in SubmitBodies}
    \cup {[ok |-> TRUE, status |-> 400, text |-> b] :
              b \in {JsonDumps(PyDict(<<>>)), UrlBody(PyStr(HttpB))}}

\* the grading outcomes explored when invocations run concurrently: no
\* response, a final response, a response naming a next URL
PairSubmitResponses ==
    {[ok |-> FALSE, status |-> 0, text |-> <<>>],
     [ok |-> TRUE, status |-> 200, text |-> JsonDumps(PyDict(<<>>))],
     [ok |-> TRUE, status |-> 200, text |-> UrlBody(PyStr(HttpB))]}

\* ------------------------------------------------------------------------
\* solve_quiz as a state machine
\* ------------------------------------------------------------------------

VARIABLES
    procs,               \* the solve_quiz invocations of this run
    url,                 \* [p] argument: start URL
    required_min_steps,  \* [p] argument
    max_steps,           \* [p] argument
    steps,               \* [p] the step log
    current_url,         \* [p]
    step_no,             \* [p]
    record,              \* [p] the record of the running iteration
    page_text,           \* [p] local of the running iteration
    file_link,           \* [p] local of the running iteration
    final_ans,           \* [p] _submit_to_analysis: the normalized answer
    pc,                  \* [p] "loop", or the response awaited, or "done"
    result,              \* [p] the returned mapping, once pc[p] = "done"
    net,                 \* [p] history: the requests sent, in order
    replies,             \* [p] history: the outcomes of the awaited calls
    cand,                \* normalizer run: the candidate answer
    once,                \* normalizer run: normalize(cand)
    twice,               \* normalizer run: normalize(normalize(cand))
    npc                  \* normalizer run: "idle", "in", "once", "twice"

argVars == <<procs, url, required_min_steps, max_steps>>

chainVars == <<argVars, steps, current_url, step_no, record, page_text,
               file_link, final_ans, pc, result, net, replies>>

normVars == <<cand, once, twice, npc>>

vars == <<chainVars, normVars>>

\* record[k] = v
Put(r, k, v) == [x \in DOMAIN r \cup {k} |-> IF x = k THEN v ELSE r[x]]

\* s.get("submit_status", 500)
StatusOf(r) == IF "submit_status" \in DOMAIN r THEN r["submit_status"] ELSE 500

NoResult == [result |-> "", steps_done |-> 0, meets_required_steps |-> FALSE,
             steps |-> <<>>]

\* chain_result with a record that has no submit_status counted as a success
chain_result_default_ok(p, stps) ==
    LET total == Len(stps)
        success == \A i \in 1..Len(stps) :
                       (IF "submit_status" \in DOMAIN stps[i]
                        THEN stps[i]["submit_status"] ELSE 200) < 400
    IN  [result |-> IF success THEN "chain_completed" ELSE "chain_with_errors",
         steps_done |-> total,
         meets_required_steps |-> total >= required_min_steps[p],
         steps |-> stps]

\* chain_result with meets_required_steps granted only to a successful chain
chain_result_meets_on_success(p, stps) ==
    LET total == Len(stps)
        success == \A i \in 1..Len(stps) : StatusOf(stps[i]) < 400
    IN  [result |-> IF success THEN "chain_completed" ELSE "chain_with_errors",
         steps_done |-> total,
         meets_required_steps |-> success /\ total >= required_min_steps[p],
         steps |-> stps]

\* lines 375-383: the returned mapping
chain_result(p, stps) ==
    LET total == Len(stps)
        success == \A i \in 1..Len(stps) : StatusOf(stps[i]) < 400
    IN  [result |-> IF success THEN "chain_completed" ELSE "chain_with_errors",
         steps_done |-> total,
         meets_required_steps |-> total >= required_min_steps[p],
         steps |-> stps]

Request(kind, p, u, a) == [kind |-> kind, step |-> step_no[p], url |-> u, answer |-> a]

\* history: the awaited call of this step ended with the given outcome and
\* delivered the given response
Reply(p, kind, outcome, resp) ==
    replies' = [replies EXCEPT ![p] =
                    Append(@, [kind |-> kind, step |-> step_no[p],
                               outcome |-> outcome, resp |-> resp])]

\* leave the loop and return
Return(p, stps) ==
    /\ steps' = [steps EXCEPT ![p] = stps]
    /\ result' = [result EXCEPT ![p] = chain_result(p, stps)]
    /\ pc' = [pc EXCEPT ![p] = "done"]

\* the except branch without its break: the record is appended and the loop
\* goes on
Except_continue(p, rec, msg) ==
    /\ record' = [record EXCEPT ![p] = Put(rec, "error", msg)]
    /\ steps' = [steps EXCEPT ![p] = Append(@, Put(rec, "error", msg))]
    /\ pc' = [pc EXCEPT ![p] = "loop"]
    /\ UNCHANGED <<result, current_url, step_no, page_text, file_link, final_ans, net>>

\* the except branch returning without the append of the failed record
Except_without_append(p, rec, msg) ==
    /\ record' = [record EXCEPT ![p] = Put(rec, "error", msg)]
    /\ Return(p, steps[p])
    /\ UNCHANGED <<current_url, step_no, page_text, file_link, final_ans, net>>

\* lines 370-373: the except branch of the iteration
Except(p, rec, msg) ==
    /\ record' = [record EXCEPT ![p] = Put(rec, "error", msg)]
    /\ Return(p, Append(steps[p], Put(rec, "error", msg)))
    /\ UNCHANGED <<current_url, step_no, page_text, file_link, final_ans, net>>

\* In the operators below a value computed once by the code is bound once,
\* as \E x \in {e}.

\* the submission with the raw answer placed in the payload
Submit_raw_posted(p, rec, ans) ==
    \E fa \in {normalize_answer_for_submission(ans)} :
        /\ record' = [record EXCEPT ![p] = Put(rec, "raw_answer", ans)]
        /\ final_ans' = [final_ans EXCEPT ![p] = fa]
        /\ net' = [net EXCEPT ![p] = Append(@, Request("submit", p, current_url[p], ans))]
        /\ pc' = [pc EXCEPT ![p] = "submit"]
        /\ UNCHANGED <<steps, result, current_url, step_no, page_text, file_link>>

\* lines 331-340, up to the POST of _submit_to_analysis
Submit(p, rec, ans) ==
    \E fa \in {normalize_answer_for_submission(ans)} :
        /\ record' = [record EXCEPT ![p] = Put(rec, "raw_answer", ans)]
        /\ final_ans' = [final_ans EXCEPT ![p] = fa]
        /\ net' = [net EXCEPT ![p] = Append(@, Request("submit", p, current_url[p], fa))]
        /\ pc' = [pc EXCEPT ![p] = "submit"]
        /\ UNCHANGED <<steps, result, current_url, step_no, page_text, file_link>>

\* the cascade without secret extraction: no file answer goes to the LLM
Cascade_llm_first(p, rec, ans) ==
    IF ans = PyNone
    THEN /\ record' = [record EXCEPT ![p] = Put(rec, "method", "aipipe")]
         /\ net' = [net EXCEPT ![p] = Append(@, Request("llm", p, current_url[p], PyNone))]
         /\ pc' = [pc EXCEPT ![p] = "llm"]
         /\ UNCHANGED <<steps, result, current_url, step_no, final_ans,
                        page_text, file_link>>
    ELSE Submit(p, rec, ans)

\* lines 319-340: secret extraction, then the LLM call or the submission
Cascade(p, rec, ans) ==
    \E extracted \in {extract_secret_from_text(page_text[p])} :
    \E found \in {ans = PyNone /\ Truthy(extracted)} :
    \E ans2 \in {IF found THEN extracted ELSE ans} :
    \E rec2 \in {IF found THEN Put(rec, "method", "extracted_secret") ELSE rec} :
        IF ans2 = PyNone
        THEN /\ record' = [record EXCEPT ![p] = Put(rec2, "method", "aipipe")]
             /\ net' = [net EXCEPT ![p] = Append(@, Request("llm", p, current_url[p], PyNone))]
             /\ pc' = [pc EXCEPT ![p] = "llm"]
             /\ UNCHANGED <<steps, result, current_url, step_no, final_ans,
                            page_text, file_link>>
        ELSE Submit(p, rec2, ans2)

\* the loop as a do-while: the first iteration runs untested
loop_condition_first_pass(p) ==
    step_no[p] = 0 \/ (Truthy(current_url[p]) /\ step_no[p] < max_steps[p])

\* loop_condition with the cap off by one: step_no <= max_steps
loop_condition_inclusive(p) == Truthy(current_url[p]) /\ step_no[p] <= max_steps[p]

\* line 288: the while condition
loop_condition(p) == Truthy(current_url[p]) /\ step_no[p] < max_steps[p]

\* LoopTest with step_no kept in one counter shared by all invocations
LoopTest_shared_counter(p) ==
    /\ pc[p] = "loop"
    /\ IF loop_condition(p)
       THEN /\ step_no' = [q \in procs |-> step_no[q] + 1]
            /\ record' = [record EXCEPT ![p] =
                              [step |-> step_no[p] + 1, url |-> current_url[p]]]
            /\ net' = [net EXCEPT ![p] = Append(@,
                          [kind |-> "page", step |-> step_no[p] + 1,
                           url |-> current_url[p], answer |-> PyNone])]
            /\ pc' = [pc EXCEPT ![p] = "fetch"]
            /\ UNCHANGED <<steps, result, current_url>>
       ELSE /\ Return(p, steps[p])
            /\ UNCHANGED <<record, net, step_no, current_url>>
    /\ UNCHANGED <<page_text, file_link, final_ans, replies, argVars, normVars>>

\* lines 288-294: the while test, then the start of an iteration up to the
\* page GET; when the test fails the function returns
LoopTest(p) ==
    /\ pc[p] = "loop"
    /\ IF loop_condition(p)
       THEN /\ step_no' = [step_no EXCEPT ![p] = @ + 1]
            /\ record' = [record EXCEPT ![p] =
                              [step |-> step_no[p] + 1, url |-> current_url[p]]]
            /\ net' = [net EXCEPT ![p] = Append(@,
                          [kind |-> "page", step |-> step_no[p] + 1,
                           url |-> current_url[p], answer |-> PyNone])]
            /\ pc' = [pc EXCEPT ![p] = "fetch"]
            /\ UNCHANGED <<steps, result, current_url>>
       ELSE /\ Return(p, steps[p])
            /\ UNCHANGED <<record, net, step_no, current_url>>
    /\ UNCHANGED <<page_text, file_link, final_ans, replies, argVars, normVars>>

\* line 294 returns or raises, then line 297 sends the second GET
PageResponse(p) ==
    /\ pc[p] = "fetch"
    /\ \/ /\ Reply(p, "page", "error", <<>>)
          /\ Except(p, record[p], "FetchError")
       \/ /\ Fetchable(current_url[p])
          /\ \E t \in PageTexts :
                /\ Reply(p, "page", "ok", t)
                /\ page_text' = [page_text EXCEPT ![p] = t]
          /\ net' = [net EXCEPT ![p] = Append(@, Request("scan", p, current_url[p], PyNone))]
          /\ pc' = [pc EXCEPT ![p] = "scan"]
          /\ UNCHANGED <<steps, result, current_url, step_no, record, file_link, final_ans>>
    /\ UNCHANGED <<argVars, normVars>>

\* lines 297-314 (file link found) or 297-340 (none): the anchor scan, then
\* the file GET or the rest of the cascade
ScanResponse(p) ==
    /\ pc[p] = "scan"
    /\ \/ /\ Reply(p, "scan", "error", <<>>)
          /\ Except(p, record[p], "FetchError")
       \/ \E hrefs \in AnchorLists :
            \E link \in {find_file_link(hrefs, 1, current_url[p].v)} :
                /\ Reply(p, "scan", "ok", hrefs)
                /\ IF Truthy(link)
                   THEN /\ file_link' = [file_link EXCEPT ![p] = link]
                        /\ record' = [record EXCEPT ![p] = Put(@, "method", "file_heuristic")]
                        /\ net' = [net EXCEPT ![p] = Append(@, Request("file", p, link, PyNone))]
                        /\ pc' = [pc EXCEPT ![p] = "file"]
                        /\ UNCHANGED <<steps, result, current_url, step_no, final_ans,
                                       page_text>>
                   ELSE Cascade(p, record[p], PyNone)
    /\ UNCHANGED <<argVars, normVars>>

\* the file failure not caught at lines 315-317: it reaches the except branch
file_step_uncaught(p, resp) ==
    \E r \in {download_and_process_file(file_link[p].v, resp, page_text[p])} :
        IF r.raised
        THEN Except(p, record[p], r.err)
        ELSE Cascade(p, record[p], r.val)

\* lines 312-317: the file answer, or file_error and no answer
file_step(p, resp) ==
    \E r \in {download_and_process_file(file_link[p].v, resp, page_text[p])} :
        IF r.raised
        THEN Cascade(p, Put(record[p], "file_error", r.err), PyNone)
        ELSE Cascade(p, record[p], r.val)

\* lines 314-340: the file GET returned; the rest of the cascade
FileResponse(p) ==
    /\ pc[p] = "file"
    /\ \E resp \in FileResponses :
         /\ Reply(p, "file", IF resp.ok /\ resp.parses THEN "ok" ELSE "error", resp)
         /\ file_step(p, resp)
    /\ UNCHANGED <<argVars, normVars>>

\* lines 329-340: the LLM answer, then the submission
llm_step(p, resp) ==
    \E r \in {solve_page_with_llm(resp)} :
        IF r.raised
        THEN Except(p, record[p], r.err)
        ELSE Submit(p, record[p], r.val)

LlmResponse(p) ==
    /\ pc[p] = "llm"
    /\ \E resp \in LlmResponses :
         /\ Reply(p, "llm", IF ~resp.ok THEN "error"
                            ELSE IF resp.choices = <<>> THEN "no_choices" ELSE "ok",
                     resp)
         /\ llm_step(p, resp)
    /\ UNCHANGED <<argVars, normVars>>

\* the break taken before the append: the last record is lost
Advance_break_before_append(p, rec, next_url) ==
    IF ~Truthy(next_url)
    THEN Return(p, steps[p]) /\ UNCHANGED current_url
    ELSE /\ steps' = [steps EXCEPT ![p] = Append(@, rec)]
         /\ current_url' = [current_url EXCEPT ![p] = next_url]
         /\ pc' = [pc EXCEPT ![p] = "loop"]
         /\ UNCHANGED result

\* the end of the chain recorded as an error on the graded record
Advance_error_on_stop(p, rec, next_url) ==
    IF ~Truthy(next_url)
    THEN Return(p, Append(steps[p], Put(rec, "error", "NoNextUrl"))) /\ UNCHANGED current_url
    ELSE /\ steps' = [steps EXCEPT ![p] = Append(@, rec)]
         /\ current_url' = [current_url EXCEPT ![p] = next_url]
         /\ pc' = [pc EXCEPT ![p] = "loop"]
         /\ UNCHANGED result

\* the loop going on without current_url = next_url
Advance_keep_url(p, rec, next_url) ==
    IF ~Truthy(next_url)
    THEN Return(p, Append(steps[p], rec)) /\ UNCHANGED current_url
    ELSE /\ steps' = [steps EXCEPT ![p] = Append(@, rec)]
         /\ pc' = [pc EXCEPT ![p] = "loop"]
         /\ UNCHANGED <<result, current_url>>

\* lines 361-368: append the record, then break or move to the next URL
Advance(p, rec, next_url) ==
    IF ~Truthy(next_url)
    THEN Return(p, Append(steps[p], rec)) /\ UNCHANGED current_url
    ELSE /\ steps' = [steps EXCEPT ![p] = Append(@, rec)]
         /\ current_url' = [current_url EXCEPT ![p] = next_url]
         /\ pc' = [pc EXCEPT ![p] = "loop"]
         /\ UNCHANGED result

\* the outcomes of the grading POST explored in this run
GradingResponses ==
    IF Cardinality(procs) = 1 THEN SubmitResponses ELSE PairSubmitResponses

\* lines 263-275 and 342-368: the grading response, the next URL, the append
SubmitResponse(p) ==
    /\ pc[p] = "submit"
    /\ \E resp \in GradingResponses :
         IF ~resp.ok
         THEN Reply(p, "submit", "error", resp) /\ Except(p, record[p], "SubmitError")
         ELSE \E parsed \in {submit_parsed(resp.text)} :
              \E next_url \in {next_url_of(parsed)} :
              \E rec \in {Put(Put(Put(Put(record[p],
                               "submit_status", resp.status),
                               "submitted_answer", final_ans[p]),
                               "submit_parsed", parsed),
                               "next_url", next_url)} :
                  /\ Reply(p, "submit", "ok", resp)
                  /\ record' = [record EXCEPT ![p] = rec]
                  /\ Advance(p, rec, next_url)
                  /\ UNCHANGED <<step_no, page_text, file_link, final_ans, net>>
    /\ UNCHANGED <<argVars, normVars>>

IdleNorm ==
    /\ cand = PyNone
    /\ once = PyNone
    /\ twice = PyNone
    /\ npc = "idle"

\* the state after the call of solve_quiz reached its first statement
InitChain(P) ==
    /\ procs = P
    /\ url \in [P -> StartUrls]
    /\ required_min_steps \in [P -> RequiredMinArgs]
    /\ max_steps \in [P -> MaxStepsArgs]
    /\ steps = [p \in P |-> <<>>]
    /\ current_url = [p \in P |-> PyStr(url[p])]
    /\ step_no = [p \in P |-> 0]
    /\ record = [p \in P |-> << >>]
    /\ page_text = [p \in P |-> <<>>]
    /\ file_link = [p \in P |-> PyNone]
    /\ final_ans = [p \in P |-> PyNone]
    /\ pc = [p \in P |-> "loop"]
    /\ result = [p \in P |-> NoResult]
    /\ net = [p \in P |-> <<>>]
    /\ replies = [p \in P |-> <<>>]

Init == InitChain({1}) /\ IdleNorm

Next ==
    \E p \in procs :
        \/ LoopTest(p)
        \/ PageResponse(p)
        \/ ScanResponse(p)
        \/ FileResponse(p)
        \/ LlmResponse(p)
        \/ SubmitResponse(p)

Spec == Init /\ [][Next]_vars

\* ------------------------------------------------------------------------
\* Properties of solve_quiz (Spec)
\* ------------------------------------------------------------------------

HasField(r, f) == f \in DOMAIN r

Last(q) == q[Len(q)]

\* the record of iteration k: in the log once appended, else the running one
RecordOf(p, k) == IF k <= Len(steps[p]) THEN steps[p][k] ELSE record[p]

\* a request of the given kind was sent in iteration k
Sent(p, k, kind) == \E i \in 1..Len(net[p]) : net[p][i].step = k /\ net[p][i].kind = kind

\* the record's grading response carried a non-empty next URL and the
\* iteration did not raise
Continues(r) == ~HasField(r, "error") /\ HasField(r, "next_url") /\ Truthy(r["next_url"])

\* solve_quiz has returned
Done(p) == pc[p] = "done"

\* the cap on iterations and records, and the outcome of a chain stopped by
\* the cap alone
C1_Cap ==
    \A p \in procs :
        /\ max_steps[p] >= 0 =>
               step_no[p] <= max_steps[p] /\ Len(steps[p]) <= max_steps[p]
        /\ (/\ Done(p)
            /\ url[p] # <<>>
            /\ max_steps[p] >= 0
            /\ \A i \in 1..Len(result[p].steps) : Continues(result[p].steps[i]))
           => /\ result[p].steps_done = max_steps[p]
              /\ Len(result[p].steps) = max_steps[p]
              /\ (\A i \in 1..Len(result[p].steps) :
                      result[p].steps[i]["submit_status"] < 400)
                 => result[p].result = "chain_completed"

\* position inside an iteration, counted down towards the next loop test
Rank(p) ==
    CASE pc[p] = "fetch" -> 5
      [] pc[p] = "scan" -> 4
      [] pc[p] = "file" -> 3
      [] pc[p] = "llm" -> 2
      [] pc[p] = "submit" -> 1
      [] OTHER -> 0

\* the steps an invocation can still take: 0 exactly when it has returned
Variant(p) ==
    IF Done(p) THEN 0
    ELSE 1 + Rank(p)
           + 6 * (IF max_steps[p] > step_no[p] THEN max_steps[p] - step_no[p] ELSE 0)

\* every step of an invocation brings it closer to its return
C1_Progress ==
    \A p \in procs :
        <<pc[p], step_no[p], steps[p]>>' # <<pc[p], step_no[p], steps[p]>>
            => Variant(p)' < Variant(p)

\* C1: solve_quiz never runs more than max_steps iterations and terminates
\* (every step lowers a bounded variant) with at most max_steps step records,
\* for max_steps >= 0; a chain from a non-empty start URL in which every
\* grading response carries a non-empty next URL and no iteration raises
\* stops with exactly max_steps records, and with chain_completed when every
\* submission status was below 400
C1_StepCap == []C1_Cap /\ [][C1_Progress]_vars

\* C1 witness: a chain of at least two steps stopped by the cap alone
C1_Witness ==
    \E p \in procs :
        /\ Done(p)
        /\ max_steps[p] >= 2
        /\ result[p].steps_done = max_steps[p]
        /\ \A i \in 1..Len(steps[p]) : Continues(steps[p][i])
        /\ result[p].result = "chain_completed"

\* C2: the result is chain_completed exactly when every step record has a
\* submission status below 400 (a record without one counts as a failure),
\* otherwise chain_with_errors; a status of 400 or above does not stop the
\* chain: after a record that continues, only the step cap ends the loop
C2_Outcome ==
    \A p \in procs :
        Done(p) =>
            /\ result[p].result \in {"chain_completed", "chain_with_errors"}
            /\ result[p].result = "chain_completed" <=>
                   \A i \in 1..Len(result[p].steps) :
                       /\ HasField(result[p].steps[i], "submit_status")
                       /\ result[p].steps[i]["submit_status"] < 400
            /\ (steps[p] # <<>> /\ Continues(Last(steps[p]))) => step_no[p] = max_steps[p]

\* C2 witness: a first step graded 400 was followed by a second submitted step
C2_Witness ==
    \E p \in procs :
        /\ Done(p)
        /\ Len(steps[p]) = 2
        /\ steps[p][1]["submit_status"] >= 400
        /\ HasField(steps[p][2], "submit_status")
        /\ steps[p][2]["submit_status"] < 400
        /\ result[p].result = "chain_with_errors"

\* C3: when a page fetch, the LLM call or the submission raises, the error is
\* stored in that iteration's record, the record is appended exactly once, no
\* further request is sent (no retry, no later fetch or submission) and
\* solve_quiz returns a result
C3_ErrorStops ==
    \A p \in procs :
        \A i \in 1..Len(replies[p]) :
            LET e == replies[p][i]
            IN  (e.outcome = "error" /\ e.kind # "file") =>
                    /\ Done(p)
                    /\ i = Len(replies[p])
                    /\ Len(steps[p]) = e.step
                    /\ HasField(steps[p][e.step], "error")
                    /\ steps[p][e.step]["error"] # ""
                    /\ steps[p][e.step]["step"] = e.step
                    /\ Cardinality({k \in 1..Len(steps[p]) :
                                       steps[p][k]["step"] = e.step}) = 1
                    /\ Last(net[p]).step = e.step
                    /\ Last(net[p]).kind = e.kind
                    /\ Cardinality({k \in 1..Len(net[p]) :
                                       /\ net[p][k].step = e.step
                                       /\ net[p][k].kind = e.kind}) = 1
                    /\ result[p].steps = steps[p]
                    /\ result[p].steps_done = e.step

\* C3 witness: the LLM call of a second step raised
C3_Witness ==
    \E p \in procs :
        /\ Done(p)
        /\ Len(steps[p]) = 2
        /\ Last(replies[p]).kind = "llm"
        /\ Last(replies[p]).outcome = "error"
        /\ HasField(steps[p][2], "error")

\* the grading response has no url key, or an empty or false url value
UrlAbsent(parsed) ==
    \/ parsed.t # "dict"
    \/ ~HasKey(parsed.v, UrlKey)
    \/ ~Truthy(GetKey(parsed.v, UrlKey))

\* C4: when the first step's grading response has no (or an empty) url,
\* solve_quiz stops after exactly one record, without an error field, and
\* meets_required_steps is false whenever required_min_steps > 1
C4_StopsAfterOne ==
    \A p \in procs :
        (/\ HasField(RecordOf(p, 1), "submit_parsed")
         /\ UrlAbsent(RecordOf(p, 1)["submit_parsed"]))
        => /\ Done(p)
           /\ Len(steps[p]) = 1
           /\ ~HasField(steps[p][1], "error")
           /\ result[p].steps_done = 1
           /\ Len(result[p].steps) = 1
           /\ required_min_steps[p] > 1 => ~result[p].meets_required_steps

\* C4 witness: a chain allowed two steps stopped after one, short of the
\* required minimum
C4_Witness ==
    \E p \in procs :
        /\ Done(p)
        /\ max_steps[p] >= 2
        /\ required_min_steps[p] > 1
        /\ Len(steps[p]) = 1
        /\ HasField(steps[p][1], "submit_parsed")
        /\ UrlAbsent(steps[p][1]["submit_parsed"])
        /\ ~result[p].meets_required_steps

\* C5: steps_done is the number of records in the returned log and
\* meets_required_steps is steps_done >= required_min_steps, whatever the
\* outcome
C5_Counts ==
    \A p \in procs :
        Done(p) =>
            /\ result[p].steps = steps[p]
            /\ result[p].steps_done = Len(result[p].steps)
            /\ result[p].meets_required_steps
                   <=> result[p].steps_done >= required_min_steps[p]

\* C5 witness: a chain with errors that still meets a positive required minimum
C5_Witness ==
    \E p \in procs :
        /\ Done(p)
        /\ result[p].result = "chain_with_errors"
        /\ required_min_steps[p] > 0
        /\ result[p].steps_done >= required_min_steps[p]
        /\ result[p].meets_required_steps

\* C6: a failed file download or parse is stored as file_error, puts no
\* error field on the record, and the cascade goes on: the answer comes from
\* secret extraction or the LLM, and the submission is sent once an answer
\* exists
C6_FileFailureFallsThrough ==
    \A p \in procs :
        \A i \in 1..Len(replies[p]) :
            LET e == replies[p][i]
                r == RecordOf(p, e.step)
            IN  (e.kind = "file" /\ e.outcome = "error") =>
                    /\ HasField(r, "file_error")
                    /\ r["method"] \in {"extracted_secret", "aipipe"}
                    /\ Sent(p, e.step, "llm") \/ Sent(p, e.step, "submit")
                    /\ r["method"] = "extracted_secret" =>
                           ~Sent(p, e.step, "llm") /\ Sent(p, e.step, "submit")
                    /\ HasField(r, "raw_answer") => Sent(p, e.step, "submit")
                    /\ HasField(r, "error") =>
                           /\ r["error"] \in {"AipipeError", "SubmitError"}
                           /\ Last(replies[p]).kind \in {"llm", "submit"}
                    /\ (r["method"] = "aipipe" /\ ~Sent(p, e.step, "submit")) =>
                           \/ pc[p] = "llm"
                           \/ HasField(r, "error") /\ r["error"] = "AipipeError"

\* C6 witness: after a failed file download the step was answered by the LLM
\* and graded
C6_Witness ==
    \E p \in procs :
        /\ steps[p] # <<>>
        /\ HasField(steps[p][1], "file_error")
        /\ steps[p][1]["method"] = "aipipe"
        /\ HasField(steps[p][1], "submit_status")
        /\ ~HasField(steps[p][1], "error")

\* C7: when the LLM service is unreachable, answers non-2xx or returns no
\* choices, the iteration records an error, makes no submission and the
\* chain stops
C7_LlmFailureStops ==
    \A p \in procs :
        \A i \in 1..Len(replies[p]) :
            LET e == replies[p][i]
            IN  (e.kind = "llm" /\ e.outcome \in {"error", "no_choices"}) =>
                    /\ Done(p)
                    /\ HasField(RecordOf(p, e.step), "error")
                    /\ ~Sent(p, e.step, "submit")

NestedExample ==
    <<"{", "\"", "u", "r", "l", "\"", ":", " ", "\"">> \o HttpB \o <<"\"", "}">>

\* C8: a url field that is a string starting with "{" and parsing as a JSON
\* object gives the nested object's url as next URL (none, and the chain
\* stops, when it has no url); when it does not parse the next URL is the
\* string itself and the step records no error
C8_NestedUrl ==
    \A p \in procs :
        \A k \in 1..Len(steps[p]) :
            LET r == steps[p][k]
                parsed == r["submit_parsed"]
                u == GetKey(parsed.v, UrlKey)
                nested == JsonLoads(u.v)
            IN  (/\ HasField(r, "submit_parsed")
                 /\ parsed.t = "dict"
                 /\ HasKey(parsed.v, UrlKey)
                 /\ u.t = "str"
                 /\ StartsWith(u.v, <<"{">>))
                => /\ (nested.ok /\ HasKey(nested.val.v, UrlKey)) =>
                          r["next_url"] = GetKey(nested.val.v, UrlKey)
                   /\ (nested.ok /\ ~HasKey(nested.val.v, UrlKey)) =>
                          r["next_url"] = PyNone /\ k = Len(steps[p]) /\ Done(p)
                   /\ ~nested.ok => r["next_url"] = u /\ ~HasField(r, "error")
                   /\ u.v = NestedExample => r["next_url"] = PyStr(HttpB)

\* C8 witness: the nested url of the first grading response was the URL of
\* the second step
C8_Witness ==
    \E p \in procs :
        /\ Len(steps[p]) = 2
        /\ HasField(steps[p][1], "submit_parsed")
        /\ steps[p][1]["submit_parsed"] = PyDict(<< <<UrlKey, PyStr(NestedExample)>> >>)
        /\ steps[p][1]["next_url"] = PyStr(HttpB)
        /\ steps[p][2]["url"] = PyStr(HttpB)

\* the submit requests sent in iteration k
SubmitsOf(p, k) ==
    {i \in 1..Len(net[p]) : net[p][i].step = k /\ net[p][i].kind = "submit"}

\* C11: for every step record with a submission status, submitted_answer is
\* the answer of the one payload posted for that step and is the
\* normalization of the record's raw_answer, and the payload's url is the
\* URL of that step
C11_SubmittedIsSent ==
    \A p \in procs :
        \A k \in 1..step_no[p] :
            LET r == RecordOf(p, k)
            IN  HasField(r, "submit_status") =>
                    /\ HasField(r, "submitted_answer") /\ HasField(r, "raw_answer")
                    /\ Cardinality(SubmitsOf(p, k)) = 1
                    /\ \A i \in SubmitsOf(p, k) :
                           /\ net[p][i].answer = r["submitted_answer"]
                           /\ net[p][i].url = r["url"]
                    /\ r["submitted_answer"] =
                           normalize_answer_for_submission(r["raw_answer"])

\* C11 witness: a graded step whose raw answer was changed by normalization
C11_Witness ==
    \E p \in procs :
        /\ steps[p] # <<>>
        /\ HasField(steps[p][1], "submit_status")
        /\ steps[p][1]["raw_answer"] = AnswerTrue
        /\ steps[p][1]["submitted_answer"] # steps[p][1]["raw_answer"]
        /\ \E i \in SubmitsOf(p, 1) : net[p][i].answer = steps[p][1]["submitted_answer"]

\* C12: when the body of the grading response is not valid JSON the step does
\* not fail: submit_parsed is the single-key mapping {"raw": body}, the record
\* has the response's status and no error field, its next URL is None, the
\* record is the last of the log, no further request is sent and solve_quiz
\* has returned
C12_NonJsonBody ==
    \A p \in procs :
        \A i \in 1..Len(replies[p]) :
            LET e == replies[p][i]
            IN  (e.kind = "submit" /\ e.outcome = "ok" /\ ~JsonLoads(e.resp.text).ok) =>
                    /\ Done(p)
                    /\ i = Len(replies[p])
                    /\ Len(steps[p]) = e.step
                    /\ steps[p][e.step]["submit_parsed"] =
                           PyDict(<< <<RawKey, PyStr(e.resp.text)>> >>)
                    /\ Len(steps[p][e.step]["submit_parsed"].v) = 1
                    /\ steps[p][e.step]["submit_status"] = e.resp.status
                    /\ ~HasField(steps[p][e.step], "error")
                    /\ steps[p][e.step]["next_url"] = PyNone
                    /\ Last(net[p]).kind = "submit" /\ Last(net[p]).step = e.step
                    /\ result[p].steps = steps[p]
                    /\ result[p].result = "chain_completed" <=>
                           \A k \in 1..Len(steps[p]) : StatusOf(steps[p][k]) < 400

\* C12 witness: a chain allowed two steps ended, completed, after a first
\* grading response whose body was the plain text ok
C12_Witness ==
    \E p \in procs :
        /\ Done(p)
        /\ max_steps[p] >= 2
        /\ Len(steps[p]) = 1
        /\ Last(replies[p]).kind = "submit"
        /\ Last(replies[p]).outcome = "ok"
        /\ Last(replies[p]).resp.text = <<"o", "k">>
        /\ steps[p][1]["submit_parsed"] = PyDict(<< <<RawKey, PyStr(<<"o", "k">>)>> >>)
        /\ result[p].result = "chain_completed"

\* ------------------------------------------------------------------------
\* Two invocations of solve_quiz awaited concurrently (src/app.py)
\* ------------------------------------------------------------------------

\* max_steps of the first of the two concurrent invocations
ConcChain == 1

\* two requests accepted by quiz_endpoint, each running its own solve_quiz
InitPair ==
    /\ InitChain({1, 2})
    /\ url = [p \in {1, 2} |-> HttpA]
    /\ required_min_steps = [p \in {1, 2} |-> DefaultRequiredMin]
    /\ max_steps = [p \in {1, 2} |-> IF p = 1 THEN ConcChain ELSE 1]
    /\ IdleNorm

SpecPair == InitPair /\ [][Next]_vars

\* solve_quiz run without suspension against the responses of log, from the
\* while test with the given current URL, step counter and step log, the next
\* response being log[i]: the mapping it returns
RECURSIVE Replay(_, _, _, _, _, _)
Replay(p, cur, n, stps, log, i) ==
    IF ~(Truthy(cur) /\ n < max_steps[p]) THEN chain_result(p, stps)
    ELSE
    LET rec0 == [step |-> n + 1, url |-> cur]
        failed(rec, msg) == chain_result(p, Append(stps, Put(rec, "error", msg)))
        page == log[i]
        scan == log[i + 1]
        link == find_file_link(scan.resp, 1, cur.v)
        hasFile == Truthy(link)
        fileR == download_and_process_file(link.v, log[i + 2].resp, page.resp)
        rec1 == IF ~hasFile THEN rec0
                ELSE IF fileR.raised
                     THEN Put(Put(rec0, "method", "file_heuristic"), "file_error", fileR.err)
                     ELSE Put(rec0, "method", "file_heuristic")
        ans1 == IF hasFile /\ ~fileR.raised THEN fileR.val ELSE PyNone
        j == IF hasFile THEN i + 3 ELSE i + 2
        extracted == extract_secret_from_text(page.resp)
        found == ans1 = PyNone /\ Truthy(extracted)
        ans2 == IF found THEN extracted ELSE ans1
        rec2 == IF found THEN Put(rec1, "method", "extracted_secret") ELSE rec1
        needLlm == ans2 = PyNone
        llmR == solve_page_with_llm(log[j].resp)
        rec3 == IF needLlm THEN Put(rec2, "method", "aipipe") ELSE rec2
        ans3 == IF needLlm THEN llmR.val ELSE ans2
        k == IF needLlm THEN j + 1 ELSE j
        sub == log[k].resp
        rec4 == Put(rec3, "raw_answer", ans3)
        parsed == submit_parsed(sub.text)
        next_url == next_url_of(parsed)
        rec5 == Put(Put(Put(Put(rec4,
                    "submit_status", sub.status),
                    "submitted_answer", normalize_answer_for_submission(ans3)),
                    "submit_parsed", parsed),
                    "next_url", next_url)
    IN  IF page.outcome = "error" \/ ~Fetchable(cur) THEN failed(rec0, "FetchError")
        ELSE IF scan.outcome = "error" THEN failed(rec0, "FetchError")
        ELSE IF needLlm /\ llmR.raised THEN failed(rec3, llmR.err)
        ELSE IF ~sub.ok THEN failed(rec4, "SubmitError")
        ELSE IF ~Truthy(next_url) THEN chain_result(p, Append(stps, rec5))
        ELSE Replay(p, next_url, n + 1, Append(stps, rec5), log, k + 1)

\* the result of invocation p run alone against the responses it received
Alone(p) == Replay(p, PyStr(url[p]), 0, <<>>, replies[p], 1)

\* everything invocation p reads and writes
Local(p) ==
    <<steps[p], current_url[p], step_no[p], record[p], page_text[p], file_link[p],
      final_ans[p], pc[p], result[p], net[p], replies[p]>>

C13_SameAsAlone == \A p \in procs : Done(p) => result[p] = Alone(p)

C13_OwnStateOnly == \E p \in procs : \A q \in procs \ {p} : Local(q)' = Local(q)

\* C13: of two solve_quiz invocations interleaved at their network
\* suspension points, every step changes the step log, current URL, step
\* counter and other locals of one invocation only, and each invocation
\* returns the result it returns when run alone against the same responses
C13_Independent == []C13_SameAsAlone /\ [][C13_OwnStateOnly]_vars

\* C13 witness: two invocations have both returned, one with a completed
\* chain and one with errors, each after one iteration
C13_Witness ==
    /\ procs = {1, 2}
    /\ Done(1) /\ Done(2)
    /\ result[1].steps_done = 1 /\ result[2].steps_done = 1
    /\ result[1].result = "chain_completed"
    /\ result[2].result = "chain_with_errors"
    /\ result[1] = Alone(1) /\ result[2] = Alone(2)

\* the reply of the given kind received in iteration k
Answered(p, k, kind) ==
    \E i \in 1..Len(replies[p]) : replies[p][i].step = k /\ replies[p][i].kind = kind

ReplyOf(p, k, kind) ==
    replies[p][CHOOSE i \in 1..Len(replies[p]) :
                   replies[p][i].step = k /\ replies[p][i].kind = kind]

RequestOf(p, k, kind) ==
    net[p][CHOOSE i \in 1..Len(net[p]) : net[p][i].step = k /\ net[p][i].kind = kind]

\* the file heuristic of iteration k returned an answer
FileAnswered(p, k) == Answered(p, k, "file") /\ ReplyOf(p, k, "file").outcome = "ok"

\* the answer the file heuristic of iteration k returned
FileAnswer(p, k) ==
    download_and_process_file(RequestOf(p, k, "file").url.v, ReplyOf(p, k, "file").resp,
                              ReplyOf(p, k, "page").resp).val

\* the secret extracted from the page text of iteration k, or None
SecretOf(p, k) == extract_secret_from_text(ReplyOf(p, k, "page").resp)

\* place of a request in the order of one iteration
KindRank(kind) ==
    CASE kind = "page" -> 1
      [] kind = "scan" -> 2
      [] kind = "file" -> 3
      [] kind = "llm" -> 4
      [] kind = "submit" -> 5

\* C14: in one iteration the file request precedes the LLM call, which
\* precedes the submission; the LLM is called only when the file heuristic
\* gave no answer and no secret was extracted; every record with a submission
\* status has a method among file_heuristic, extracted_secret and aipipe, and
\* its raw_answer is what that method returned: the file answer when there is
\* one, else the extracted secret when there is one, else the LLM's answer
C14_MethodOrder ==
    \A p \in procs :
        /\ \A i, j \in 1..Len(net[p]) :
               (i < j /\ net[p][i].step = net[p][j].step)
                   => KindRank(net[p][i].kind) < KindRank(net[p][j].kind)
        /\ \A k \in 1..step_no[p] :
               LET r == RecordOf(p, k)
               IN  /\ Sent(p, k, "llm") =>
                          /\ ~FileAnswered(p, k)
                          /\ Sent(p, k, "file") => Answered(p, k, "file")
                          /\ ~Truthy(SecretOf(p, k))
                          /\ r["method"] = "aipipe"
                   /\ HasField(r, "submit_status") =>
                          /\ r["method"] \in {"file_heuristic", "extracted_secret", "aipipe"}
                          /\ r["method"] = "file_heuristic" <=> FileAnswered(p, k)
                          /\ r["method"] = "extracted_secret" <=>
                                 (~FileAnswered(p, k) /\ Truthy(SecretOf(p, k)))
                          /\ r["method"] = "aipipe" <=> Sent(p, k, "llm")
                          /\ r["method"] = "file_heuristic" =>
                                 r["raw_answer"] = FileAnswer(p, k)
                          /\ r["method"] = "extracted_secret" =>
                                 r["raw_answer"] = SecretOf(p, k)
                          /\ r["method"] = "aipipe" =>
                                 r["raw_answer"] =
                                     solve_page_with_llm(ReplyOf(p, k, "llm").resp).val

\* C14 witness: one chain graded a file answer in its first step and an LLM
\* answer, after a failed file download, in its second
C14_Witness ==
    \E p \in procs :
        /\ Len(steps[p]) = 2
        /\ HasField(steps[p][1], "submit_status")
        /\ steps[p][1]["method"] = "file_heuristic"
        /\ HasField(steps[p][2], "submit_status")
        /\ HasField(steps[p][2], "file_error")
        /\ steps[p][2]["method"] = "aipipe"

\* the log holds one record per finished iteration, indexed 1..n in order,
\* and every record but the last continues the chain
C15_Log ==
    \A p \in procs :
        /\ Len(steps[p]) = IF pc[p] \in {"loop", "done"} THEN step_no[p] ELSE step_no[p] - 1
        /\ \A k \in 1..Len(steps[p]) : steps[p][k]["step"] = k
        /\ \A k \in 1..(Len(steps[p]) - 1) :
               /\ ~HasField(steps[p][k], "error")
               /\ HasField(steps[p][k], "next_url")
               /\ Truthy(steps[p][k]["next_url"])

\* a step leaves the log as it is or appends one record to it, and never
\* appends in the step that starts an iteration
C15_AppendOnly ==
    \A p \in procs :
        /\ \/ steps[p]' = steps[p]
           \/ /\ Len(steps[p]') = Len(steps[p]) + 1
              /\ SubSeq(steps[p]', 1, Len(steps[p])) = steps[p]
              /\ Last(steps[p]') = record[p]'
        /\ step_no[p]' \in {step_no[p], step_no[p] + 1}
        /\ step_no[p]' = step_no[p] + 1 => steps[p]' = steps[p]

\* C15: every loop iteration, failed or not, appends exactly one record to
\* the step log; the records carry the indices 1..n in order; a record is
\* never changed or removed once appended; only the last record of the log
\* may carry an error field or lack a next URL
C15_OnePerIteration == []C15_Log /\ [][C15_AppendOnly]_vars

\* C15 witness: a returned log of two records, the first continuing, the
\* second carrying the error of its failed iteration
C15_Witness ==
    \E p \in procs :
        /\ Done(p)
        /\ step_no[p] = 2
        /\ Len(steps[p]) = 2
        /\ Continues(steps[p][1])
        /\ HasField(steps[p][2], "error")
        /\ steps[p][1]["step"] = 1 /\ steps[p][2]["step"] = 2

\* C16: the first record's URL is the start URL and every later record's URL
\* is the next_url of the record before it; the page GETs, the LLM call and
\* the submission of a step all carry that step's URL; requests are sent one
\* at a time, each after the reply to the one before, so the page fetch of a
\* step follows the grading response of the previous step
C16_UrlChain ==
    \A p \in procs :
        /\ step_no[p] >= 1 => RecordOf(p, 1)["url"] = PyStr(url[p])
        /\ \A k \in 2..step_no[p] :
               /\ HasField(steps[p][k - 1], "next_url")
               /\ RecordOf(p, k)["url"] = steps[p][k - 1]["next_url"]
        /\ \A i \in 1..Len(net[p]) :
               /\ net[p][i].kind \in {"page", "scan", "llm", "submit"} =>
                      net[p][i].url = RecordOf(p, net[p][i].step)["url"]
               /\ (net[p][i].kind = "page" /\ net[p][i].step > 1) =>
                      /\ i > 1
                      /\ replies[p][i - 1].kind = "submit"
                      /\ replies[p][i - 1].outcome = "ok"
                      /\ replies[p][i - 1].step = net[p][i].step - 1
        /\ Len(net[p]) = Len(replies[p]) + IF pc[p] \in {"loop", "done"} THEN 0 ELSE 1
        /\ \A i \in 1..Len(replies[p]) :
               replies[p][i].kind = net[p][i].kind /\ replies[p][i].step = net[p][i].step
        /\ Done(p) => result[p].steps = steps[p]

\* C16 witness: a returned log of two graded steps, the first at the start
\* URL, the second at the URL named by the first grading response
C16_Witness ==
    \E p \in procs :
        /\ Done(p)
        /\ Len(result[p].steps) = 2
        /\ result[p].steps[1]["url"] = PyStr(HttpA)
        /\ result[p].steps[1]["next_url"] = PyStr(HttpB)
        /\ result[p].steps[2]["url"] = PyStr(HttpB)
        /\ HasField(result[p].steps[2], "submit_status")
        /\ \E i \in SubmitsOf(p, 2) : net[p][i].url = PyStr(HttpB)

\* an awaited call of the invocation raised into the iteration's except branch
Raising(p) ==
    \E i \in 1..Len(replies[p]) :
        replies[p][i].outcome = "error" /\ replies[p][i].kind # "file"

\* C17: a record of the step log has an error field exactly when it has no
\* submission status, and the running record never has both; a chain stopped
\* by an exception returns chain_with_errors, and a chain_completed result
\* has no record with an error field
C17_ErrorXorStatus ==
    \A p \in procs :
        /\ \A k \in 1..Len(steps[p]) :
               HasField(steps[p][k], "error") <=> ~HasField(steps[p][k], "submit_status")
        /\ ~(HasField(record[p], "error") /\ HasField(record[p], "submit_status"))
        /\ Done(p) =>
               /\ Raising(p) =>
                      /\ HasField(Last(result[p].steps), "error")
                      /\ result[p].result = "chain_with_errors"
               /\ (\E k \in 1..Len(result[p].steps) : HasField(result[p].steps[k], "error"))
                      => Raising(p) /\ result[p].result = "chain_with_errors"
               /\ result[p].result = "chain_completed" =>
                      \A k \in 1..Len(result[p].steps) :
                          ~HasField(result[p].steps[k], "error")

\* C17 witness: a chain whose first step was graded below 400 and whose
\* second step raised at the submission returned chain_with_errors
C17_Witness ==
    \E p \in procs :
        /\ Done(p)
        /\ Len(steps[p]) = 2
        /\ HasField(steps[p][1], "submit_status")
        /\ steps[p][1]["submit_status"] < 400
        /\ ~HasField(steps[p][1], "error")
        /\ HasField(steps[p][2], "error")
        /\ ~HasField(steps[p][2], "submit_status")
        /\ Last(replies[p]).kind = "submit"
        /\ result[p].result = "chain_with_errors"

\* C18: called with max_steps <= 0 or with an empty start URL, solve_quiz
\* sends no request at all (no page fetch, no LLM call, no submission), runs
\* no iteration, and returns an empty step log with steps_done = 0, result
\* chain_completed and meets_required_steps true exactly when
\* required_min_steps <= 0
C18_NoIteration ==
    \A p \in procs :
        (max_steps[p] <= 0 \/ url[p] = <<>>) =>
            /\ net[p] = <<>>
            /\ replies[p] = <<>>
            /\ steps[p] = <<>>
            /\ step_no[p] = 0
            /\ pc[p] \in {"loop", "done"}
            /\ Done(p) =>
                   result[p] = [result |-> "chain_completed",
                                steps_done |-> 0,
                                meets_required_steps |-> required_min_steps[p] <= 0,
                                steps |-> <<>>]

\* C18 witness: a call with a start URL, max_steps = 0 and no required
\* minimum has returned an empty, completed chain that meets the minimum
C18_Witness ==
    \E p \in procs :
        /\ Done(p)
        /\ max_steps[p] = 0
        /\ url[p] = HttpA
        /\ required_min_steps[p] = 0
        /\ net[p] = <<>>
        /\ result[p].result = "chain_completed"
        /\ result[p].steps_done = 0
        /\ result[p].meets_required_steps

\* ------------------------------------------------------------------------
\* The normalizer on its own: every candidate answer, normalized twice
\* ------------------------------------------------------------------------

\* longest list and largest mapping among the candidate answers
MaxLen == 2

SeqsUpTo(S, n) == UNION {[1..k -> S] : k \in 0..n}

NormTexts ==
    {<<>>, <<"t", "r", "u", "e">>, <<" ", "Y", "e", "s", " ">>, <<"n">>, <<"5">>,
     <<"-", "1", ".", "5", "0">>, <<"a", "b">>, <<" ", "a">>, <<"x", "'", "y">>,
     <<"n", "u", "l", "l">>, <<"[", "1", ",">>,
     DataPrefix \o <<"x">> \o Base64Mark \o <<"Q">>}

Atoms ==
    {PyNone, PyBool(TRUE), PyBool(FALSE), PyInt(0), PyInt(42), PyInt(-7),
     PyFloat(15, 1), PyFloat(-20, 1)}
    \cup {PyStr(t) : t \in NormTexts}

ListItems == {PyInt(1), PyStr(<<"a">>), PyNone, PyBool(TRUE)}

Lists == {PyList(xs) : xs \in SeqsUpTo(ListItems, MaxLen)}

DictKeys == {AnswerKey, <<"k">>, <<"e">>}

DictVals ==
    {PyInt(42), PyStr(<<"t", "r", "u", "e">>), PyStr(<<" ", "a">>), PyNone,
     PyBool(FALSE), PyFloat(15, 1), PyList(<<PyInt(1), PyInt(2)>>),
     PyDict(<< <<AnswerKey, PyInt(1)>> >>)}

Dicts ==
    {PyDict(kvs) : kvs \in {q \in SeqsUpTo(DictKeys \X DictVals, MaxLen) :
                               \A i, j \in 1..Len(q) : q[i][1] = q[j][1] => i = j}}

Structured == Atoms \cup Lists \cup Dicts

\* every structured candidate, and as a string answer: its JSON text, its
\* str() text, and its JSON text with blanks around it
Candidates ==
    Structured
    \cup {PyStr(JsonDumps(x)) : x \in Structured}
    \cup {PyStr(PyRepr(x)) : x \in Structured}
    \cup {PyStr(<<" ">> \o JsonDumps(x) \o <<" ">>) : x \in Lists \cup Dicts}

\* first call of the normalizer on the candidate
NormalizeOnce ==
    /\ npc = "in"
    /\ once' = normalize_answer_for_submission(cand)
    /\ npc' = "once"
    /\ UNCHANGED <<cand, twice, chainVars>>

\* second call, on the first call's result
NormalizeTwice ==
    /\ npc = "once"
    /\ twice' = normalize_answer_for_submission(once)
    /\ npc' = "twice"
    /\ UNCHANGED <<cand, once, chainVars>>

InitNorm ==
    /\ InitChain({})
    /\ cand \in Candidates
    /\ once = PyNone
    /\ twice = PyNone
    /\ npc = "in"

NextNorm == NormalizeOnce \/ NormalizeTwice

SpecNorm == InitNorm /\ [][NextNorm]_vars

\* ------------------------------------------------------------------------
\* Properties of the normalizer (SpecNorm)
\* ------------------------------------------------------------------------

\* a mapping whose values are all booleans, numbers or strings
FlatMapping(x) == x.t = "dict" /\ \A i \in 1..Len(x.v) : IsScalar(x.v[i][2])

\* one of the four shapes the grader accepts
AllowedShape(x) == x.t \in {"bool", "int", "float", "str"} \/ FlatMapping(x)

BoolWords ==
    {<<"t", "r", "u", "e">>, <<"y", "e", "s">>, <<"y">>,
     <<"f", "a", "l", "s", "e">>, <<"n", "o">>, <<"n">>}

\* an integer or decimal literal: -?\d+ or -?\d+\.\d+
NumericLiteral(s) ==
    LET body == IF s # <<>> /\ s[1] = "-" THEN Tail(s) ELSE s
        dots == {i \in 1..Len(body) : body[i] = "."}
    IN  /\ body # <<>>
        /\ \A i \in 1..Len(body) : body[i] \in Digits \cup {"."}
        /\ Cardinality(dots) <= 1
        /\ body[1] \in Digits
        /\ body[Len(body)] \in Digits

\* a string no rule of the string branch reads as something else: trimmed,
\* not a boolean word, not a numeric literal, not JSON text (other than null)
PlainString(s) ==
    /\ s = Strip(s)
    /\ Lower(s) \notin BoolWords
    /\ ~NumericLiteral(s)
    /\ ~JsonLoads(s).ok \/ JsonLoads(s).val = PyNone

\* the values a second normalization leaves alone
FixedForm(x) ==
    \/ x.t \in {"bool", "int", "float"}
    \/ FlatMapping(x) /\ ~HasKey(x.v, AnswerKey)
    \/ x.t = "str" /\ PlainString(x.v)

\* C9 as stated: for every candidate answer x,
\* normalize(normalize(x)) = normalize(x)
C9_Idempotent == npc = "twice" => twice = once

\* C9 amended: a boolean, a number, a flat mapping without an answer key and
\* a plain string are returned unchanged, so normalize(normalize(x)) =
\* normalize(x) whenever normalize(x) has one of these forms
C9_IdempotentOnFixedForms ==
    npc = "twice" =>
        /\ FixedForm(cand) => once = cand
        /\ FixedForm(once) => twice = once

\* C9 witness: a mapping candidate was flattened to a different mapping and
\* the second normalization returned that mapping again
C9_Witness ==
    /\ npc = "twice"
    /\ cand.t = "dict"
    /\ once.t = "dict"
    /\ once # cand
    /\ twice = once

\* C10: the normalizer's result is a boolean, a number, a string or a flat
\* mapping, for every candidate answer
C10_AllowedShape == npc \in {"once", "twice"} => AllowedShape(once)

====
